---- MODULE Spec2Model ----
(***************************************************************************)
(* Model of serde_utils' generic object type Obj (src/src/generic.rs):     *)
(* its equality, ordering and hashing, and the visitor that builds an Obj  *)
(* from the events of a deserializer and replays it to a serializer.       *)
(***************************************************************************)
EXTENDS Integers, Sequences, FiniteSets, TLC

(***************************************************************************)
(* Bounds of the model.                                                    *)
(***************************************************************************)
\* Integer payloads range over -IntMax .. IntMax (i64) and 0 .. IntMax (u64).
IntMax == 1
\* f64 is modelled as sign / exponent / mantissa fields; the all-ones
\* exponent is FloatExpMax and the mantissa ranges over 0 .. FloatMantMax.
FloatExpMax == 2
FloatMantMax == 1
\* Longest list and largest number of map insertions in the operand sample.
MaxLen == 2

(***************************************************************************)
(* The Obj enum: a record with the variant tag t and the payload v.        *)
(***************************************************************************)
Null == [t |-> "Null", v |-> 0]
Bool(val) == [t |-> "Bool", v |-> val]
Signed(val) == [t |-> "Signed", v |-> val]
Unsigned(val) == [t |-> "Unsigned", v |-> val]
Float(val) == [t |-> "Float", v |-> val]
Str(val) == [t |-> "Str", v |-> val]
Bin(val) == [t |-> "Bin", v |-> val]
List(val) == [t |-> "List", v |-> val]
Map(val) == [t |-> "Map", v |-> val]

\* type_num with the numbers of Signed and Unsigned exchanged.
type_num_swapped(o) ==
    CASE o.t = "Null" -> 0
      [] o.t = "Bool" -> 1
      [] o.t = "Signed" -> 3
      [] o.t = "Unsigned" -> 2
      [] o.t = "Float" -> 4
      [] o.t = "Str" -> 5
      [] o.t = "Bin" -> 6
      [] o.t = "List" -> 7
      [] o.t = "Map" -> 8

\* Obj::type_num
type_num(o) ==
    CASE o.t = "Null" -> 0
      [] o.t = "Bool" -> 1
      [] o.t = "Signed" -> 2
      [] o.t = "Unsigned" -> 3
      [] o.t = "Float" -> 4
      [] o.t = "Str" -> 5
      [] o.t = "Bin" -> 6
      [] o.t = "List" -> 7
      [] o.t = "Map" -> 8

(***************************************************************************)
(* f64: an IEEE-754 value as its bit fields.  exp = FloatExpMax with a     *)
(* non-zero mantissa is a NaN, with a zero mantissa an infinity; exp = 0   *)
(* and mant = 0 is a zero of either sign.                                  *)
(***************************************************************************)
F64(sign, exp, mant) == [sign |-> sign, exp |-> exp, mant |-> mant]

\* f64::is_nan
is_nan(f) == f.exp = FloatExpMax /\ f.mant # 0

\* The position of a non-NaN float on the real line (IEEE order): the
\* magnitude grows with (exp, mant), and both zeros are the same point.
F64Val(f) ==
    LET mag == f.exp * (FloatMantMax + 1) + f.mant
    IN  IF f.sign = 1 THEN 0 - mag ELSE mag

\* transmute::<f64, u64>: the raw bit pattern, sign bit on top.
F64Bits(f) == (f.sign * (FloatExpMax + 1) + f.exp) * (FloatMantMax + 1) + f.mant

\* f64 == f64 (IEEE: false whenever a NaN is involved)
F64Eq(x, y) == ~is_nan(x) /\ ~is_nan(y) /\ F64Val(x) = F64Val(y)

\* Ord::cmp on integers, bytes and booleans (false < true)
IntCmp(x, y) == IF x < y THEN "Less" ELSE IF x > y THEN "Greater" ELSE "Equal"

BoolCmp(x, y) == IntCmp(IF x THEN 1 ELSE 0, IF y THEN 1 ELSE 0)

\* f64::partial_cmp(..).unwrap() on two non-NaN floats
F64PartialCmp(x, y) == IntCmp(F64Val(x), F64Val(y))

\* Ord for str, [u8]: lexicographic byte-wise, a prefix is less.
RECURSIVE BytesCmpFrom(_, _, _)
BytesCmpFrom(x, y, i) ==
    IF i > Len(x) \/ i > Len(y) THEN IntCmp(Len(x), Len(y))
    ELSE IF x[i] # y[i] THEN IntCmp(x[i], y[i])
    ELSE BytesCmpFrom(x, y, i + 1)

BytesCmp(x, y) == BytesCmpFrom(x, y, 1)

(***************************************************************************)
(* impl PartialEq for Obj, with the std implementations it calls for       *)
(* Vec<Obj> (same length, elements pairwise ==) and BTreeMap<Obj, Obj>     *)
(* (same length, entries pairwise == in iteration order).                  *)
(***************************************************************************)
RECURSIVE ObjEq(_, _)

\* Vec<Obj> == Vec<Obj>
VecEq(x, y) ==
    Len(x) = Len(y) /\ \A i \in 1..Len(x) : ObjEq(x[i], y[i])

\* Map equality that looks at the keys alone.
BTreeMapEqKeysOnly(x, y) ==
    Len(x) = Len(y) /\ \A i \in 1..Len(x) : ObjEq(x[i][1], y[i][1])

\* BTreeMap<Obj, Obj> == BTreeMap<Obj, Obj>; an entry is <<key, value>>.
BTreeMapEq(x, y) ==
    Len(x) = Len(y) /\
    \A i \in 1..Len(x) : ObjEq(x[i][1], y[i][1]) /\ ObjEq(x[i][2], y[i][2])

\* The match of Obj::eq, reached with no non-negative Signed on either side.
EqMatch(self, other) ==
    IF self.t # other.t THEN FALSE
    ELSE CASE self.t = "Null" -> TRUE
           [] self.t = "Bool" -> self.v = other.v
           [] self.t = "Unsigned" -> self.v = other.v
           [] self.t = "Signed" -> self.v = other.v
           [] self.t = "Float" ->
                IF is_nan(self.v) /\ is_nan(other.v) THEN TRUE
                ELSE F64Eq(self.v, other.v)
           [] self.t = "Str" -> self.v = other.v
           [] self.t = "Bin" -> self.v = other.v
           [] self.t = "List" -> VecEq(self.v, other.v)
           [] self.t = "Map" -> BTreeMapEq(self.v, other.v)

\* Obj::eq
ObjEq(self, other) ==
    IF self.t = "Signed" /\ self.v >= 0 THEN ObjEq(Unsigned(self.v), other)
    ELSE IF other.t = "Signed" /\ other.v >= 0 THEN ObjEq(self, Unsigned(other.v))
    ELSE EqMatch(self, other)

(***************************************************************************)
(* impl Ord for Obj, with the std lexicographic orders of Vec<Obj> and of  *)
(* BTreeMap<Obj, Obj> (the entries as (key, value) tuples, in iteration    *)
(* order).  A result is "Less", "Equal" or "Greater".                      *)
(***************************************************************************)
RECURSIVE ObjCmp(_, _)

\* Ord for Vec<Obj>: the first position that is not Equal decides, then the
\* lengths.
RECURSIVE VecCmpFrom(_, _, _)
VecCmpFrom(x, y, i) ==
    IF i > Len(x) \/ i > Len(y) THEN IntCmp(Len(x), Len(y))
    ELSE LET c == ObjCmp(x[i], y[i])
         IN  IF c # "Equal" THEN c ELSE VecCmpFrom(x, y, i + 1)

\* List order by length first and by the elements among equal lengths.
VecCmpLenFirst(x, y) ==
    IF Len(x) # Len(y) THEN IntCmp(Len(x), Len(y)) ELSE VecCmpFrom(x, y, 1)

VecCmp(x, y) == VecCmpFrom(x, y, 1)

\* Ord for BTreeMap<Obj, Obj>: Iterator::cmp over (key, value) tuples.
RECURSIVE BTreeMapCmpFrom(_, _, _)
BTreeMapCmpFrom(x, y, i) ==
    IF i > Len(x) \/ i > Len(y) THEN IntCmp(Len(x), Len(y))
    ELSE LET ck == ObjCmp(x[i][1], y[i][1])
             c == IF ck # "Equal" THEN ck ELSE ObjCmp(x[i][2], y[i][2])
         IN  IF c # "Equal" THEN c ELSE BTreeMapCmpFrom(x, y, i + 1)

BTreeMapCmp(x, y) == BTreeMapCmpFrom(x, y, 1)

\* The Float arm with the two NaN results exchanged.
FloatCmpNanLow(val, oval) ==
    IF ~is_nan(val) /\ ~is_nan(oval) THEN F64PartialCmp(val, oval)
    ELSE IF is_nan(val) THEN "Less"
    ELSE "Greater"

\* The Float arm of Obj::cmp.
FloatCmp(val, oval) ==
    IF ~is_nan(val) /\ ~is_nan(oval) THEN F64PartialCmp(val, oval)
    ELSE IF is_nan(val) THEN "Greater"
    ELSE "Less"

\* The match of Obj::cmp, reached with both sides of the same type_num.
CmpMatch(self, other) ==
    CASE self.t = "Null" -> "Equal"
      [] self.t = "Bool" -> BoolCmp(self.v, other.v)
      [] self.t = "Unsigned" -> IntCmp(self.v, other.v)
      [] self.t = "Signed" -> IntCmp(self.v, other.v)
      [] self.t = "Float" -> FloatCmp(self.v, other.v)
      [] self.t = "Str" -> BytesCmp(self.v, other.v)
      [] self.t = "Bin" -> BytesCmp(self.v, other.v)
      [] self.t = "List" -> VecCmp(self.v, other.v)
      [] self.t = "Map" -> BTreeMapCmp(self.v, other.v)

\* Obj::cmp
ObjCmp(self, other) ==
    IF self.t = "Signed" /\ self.v >= 0 THEN ObjCmp(Unsigned(self.v), other)
    ELSE IF other.t = "Signed" /\ other.v >= 0 THEN ObjCmp(self, Unsigned(other.v))
    ELSE IF type_num(self) # type_num(other)
         THEN IntCmp(type_num(self), type_num(other))
    ELSE CmpMatch(self, other)

\* Obj::partial_cmp is Some(cmp); these are the operators < and > it gives.
ObjLt(x, y) == ObjCmp(x, y) = "Less"
ObjGt(x, y) == ObjCmp(x, y) = "Greater"

(***************************************************************************)
(* impl Hash for Obj.  The result is the sequence of writes the hasher     *)
(* receives; a write is its method and the words or bytes written.         *)
(***************************************************************************)
Write(k, x) == [k |-> k, x |-> x]

RECURSIVE ObjHash(_)

\* str::hash: the bytes, then 0xff.
StrHash(val) == <<Write("bytes", val), Write("u8", <<255>>)>>

\* ByteBuf derives Hash over its Vec<u8>: the length, then the bytes.
BinHash(val) == <<Write("usize", <<Len(val)>>), Write("bytes", val)>>

\* Vec<Obj>::hash: the length, then every element.
RECURSIVE VecHashFrom(_, _)
VecHashFrom(val, i) ==
    IF i > Len(val) THEN <<>> ELSE ObjHash(val[i]) \o VecHashFrom(val, i + 1)

VecHash(val) == <<Write("usize", <<Len(val)>>)>> \o VecHashFrom(val, 1)

\* BTreeMap<Obj, Obj>::hash: every (key, value) tuple in iteration order.
RECURSIVE BTreeMapHashFrom(_, _)
BTreeMapHashFrom(val, i) ==
    IF i > Len(val) THEN <<>>
    ELSE ObjHash(val[i][1]) \o ObjHash(val[i][2]) \o BTreeMapHashFrom(val, i + 1)

BTreeMapHash(val) == BTreeMapHashFrom(val, 1)

\* The payload writes of Obj::hash, after write_u8(type_num).
HashMatch(self) ==
    CASE self.t = "Null" -> <<>>
      [] self.t = "Bool" -> <<Write("u8", <<IF self.v THEN 1 ELSE 0>>)>>
      [] self.t = "Unsigned" -> <<Write("u64", <<self.v>>)>>
      [] self.t = "Signed" -> <<Write("i64", <<self.v>>)>>
      [] self.t = "Float" -> <<Write("u64", <<F64Bits(self.v)>>)>>
      [] self.t = "Str" -> StrHash(self.v)
      [] self.t = "Bin" -> BinHash(self.v)
      [] self.t = "List" -> VecHash(self.v)
      [] self.t = "Map" -> BTreeMapHash(self.v)

\* Obj::hash without the canonicalization of a non-negative Signed.
ObjHashNoCanon(self) ==
    <<Write("u8", <<type_num(self)>>)>> \o HashMatch(self)

\* Obj::hash
ObjHash(self) ==
    IF self.t = "Signed" /\ self.v >= 0 THEN ObjHash(Unsigned(self.v))
    ELSE <<Write("u8", <<type_num(self)>>)>> \o HashMatch(self)

(***************************************************************************)
(* BTreeMap<Obj, Obj>::insert on the entries in iteration order: the key   *)
(* is compared with the stored keys from the left (search_linear), passing *)
(* those it is Greater than; on Equal the value is replaced and the stored *)
(* key kept, otherwise the entry goes in at that place.                    *)
(***************************************************************************)
RECURSIVE BTreeSearch(_, _, _)
BTreeSearch(m, key, i) ==
    IF i > Len(m) THEN [found |-> FALSE, at |-> i]
    ELSE LET c == ObjCmp(key, m[i][1])
         IN  IF c = "Greater" THEN BTreeSearch(m, key, i + 1)
             ELSE [found |-> c = "Equal", at |-> i]

\* An insert that, on an Equal key, stores the new key with the new value.
BTreeMapInsertKeyLast(m, key, value) ==
    LET r == BTreeSearch(m, key, 1)
    IN  IF r.found
        THEN [m EXCEPT ![r.at] = <<key, value>>]
        ELSE SubSeq(m, 1, r.at - 1) \o << <<key, value>> >> \o SubSeq(m, r.at, Len(m))

BTreeMapInsert(m, key, value) ==
    LET r == BTreeSearch(m, key, 1)
    IN  IF r.found
        THEN [m EXCEPT ![r.at] = <<m[r.at][1], value>>]
        ELSE SubSeq(m, 1, r.at - 1) \o << <<key, value>> >> \o SubSeq(m, r.at, Len(m))

(***************************************************************************)
(* The events between Obj and a serializer or deserializer.  A sequence is *)
(* "seq" with its length, its elements and "end"; a map is "map" with its  *)
(* length, its keys and values in turn, and "end".                         *)
(***************************************************************************)
Ev(e, v) == [e |-> e, v |-> v]

RECURSIVE Serialize(_)

\* Vec<Obj>::serialize: serialize_seq over the elements in order.
RECURSIVE SerializeElems(_, _)
SerializeElems(val, i) ==
    IF i > Len(val) THEN <<>>
    ELSE Serialize(val[i]) \o SerializeElems(val, i + 1)

\* BTreeMap<Obj, Obj>::serialize: serialize_map over the entries in
\* iteration order, each key followed by its value.
RECURSIVE SerializeEntries(_, _)
SerializeEntries(val, i) ==
    IF i > Len(val) THEN <<>>
    ELSE Serialize(val[i][1]) \o Serialize(val[i][2]) \o SerializeEntries(val, i + 1)

\* Obj::serialize
Serialize(self) ==
    CASE self.t = "Null" -> <<Ev("none", 0)>>
      [] self.t = "Bool" -> <<Ev("bool", self.v)>>
      [] self.t = "Unsigned" -> <<Ev("u64", self.v)>>
      [] self.t = "Signed" -> <<Ev("i64", self.v)>>
      [] self.t = "Float" -> <<Ev("f64", self.v)>>
      [] self.t = "Str" -> <<Ev("str", self.v)>>
      [] self.t = "Bin" -> <<Ev("bytes", self.v)>>
      [] self.t = "List" ->
            <<Ev("seq", Len(self.v))>> \o SerializeElems(self.v, 1) \o <<Ev("end", 0)>>
      [] self.t = "Map" ->
            <<Ev("map", Len(self.v))>> \o SerializeEntries(self.v, 1) \o <<Ev("end", 0)>>

(***************************************************************************)
(* Operands: values a caller can construct from literals, as the tests do. *)
(***************************************************************************)
NanA == F64(0, FloatExpMax, 1)
NanB == F64(1, FloatExpMax, 1)
PosZero == F64(0, 0, 0)
NegZero == F64(1, 0, 0)

Floats ==
    {F64(s, e, m) : s \in 0..1, e \in 0..FloatExpMax, m \in 0..FloatMantMax}

\* "", "a", "aa", "b" as UTF-8 bytes, and the byte strings of test_ord.
Strs == {<<>>, <<97>>, <<97, 97>>, <<98>>}
Bins == {<<>>, <<0>>, <<0, 1>>, <<1>>}

Atoms ==
    {Null} \cup {Bool(x) : x \in BOOLEAN}
    \cup {Signed(n) : n \in (0 - IntMax)..IntMax}
    \cup {Unsigned(n) : n \in 0..IntMax}
    \cup {Float(f) : f \in Floats}
    \cup {Str(x) : x \in Strs} \cup {Bin(x) : x \in Bins}

\* Elements of the sampled lists, keys and values of the sampled maps.
Elems == {Null, Bool(FALSE), Unsigned(1), Signed(1), Float(NanA), Float(NanB)}
MapKeys == {Unsigned(1), Signed(1), Float(NanA)}
MapVals == {Null, Float(NanA), Float(NanB)}

SeqsUpTo(S, n) == UNION {[1..k -> S] : k \in 0..n}

\* map!{ k1 => v1, ... }: the entries inserted one after the other.
RECURSIVE MapOf(_, _)
MapOf(entries, n) ==
    IF n = 0 THEN <<>>
    ELSE BTreeMapInsert(MapOf(entries, n - 1), entries[n][1], entries[n][2])

Lists == {List(x) : x \in SeqsUpTo(Elems, MaxLen)}
Maps == {Map(MapOf(x, Len(x))) : x \in SeqsUpTo(MapKeys \X MapVals, MaxLen)}

Sample == Atoms \cup Lists \cup Maps

\* A smaller sample for the laws over three operands.
OrdSample ==
    {Null, Bool(TRUE), Signed(0 - 1), Signed(1), Unsigned(0), Unsigned(1),
     Float(PosZero), Float(NegZero), Float(F64(0, 1, 0)), Float(NanA), Float(NanB),
     Str(<<97>>), Bin(<<0>>),
     List(<<>>), List(<<Signed(1)>>), List(<<Float(NanA)>>), List(<<Float(NanA), Null>>),
     Map(<<>>), Map(MapOf(<< <<Unsigned(1), Null>> >>, 1)),
     Map(MapOf(<< <<Float(NanA), Null>> >>, 1))}

(***************************************************************************)
(* State.  a, b, c are the operands of a caller that evaluates a == b,     *)
(* then the comparisons, then the hashes, then serializes a and b; pc is   *)
(* its position.                                                           *)
(***************************************************************************)
VARIABLES a, b, c, pc, eqR, cmpR, hashR, serR

(***************************************************************************)
(* State of a decode.  phase is "build" while an event source drives       *)
(* GenericVisitor, "wire" once the built value has been serialized and     *)
(* "done" once the events on the wire have been deserialized again.  stack *)
(* holds the visit_seq / visit_map calls in progress, innermost last: the  *)
(* list or map filled so far, the key of a map entry whose value has not   *)
(* arrived, and the entries the map visitor has handed over, in arrival    *)
(* order.  built is the value the finished Obj::deserialize returned, orig *)
(* the value that was serialized, wire the events written and count the    *)
(* values decoded so far.  phase is "failed" once the event source has     *)
(* reported an error, which err holds.  feed holds the entries a map       *)
(* source is given to deliver, in arrival order.                           *)
(***************************************************************************)
VARIABLES phase, stack, built, orig, wire, count, err, feed

(***************************************************************************)
(* State of a decode into a type that serde_impl! implements.  decl is the *)
(* declaration of the type, input what the event source delivers: the      *)
(* entries of a map for a struct, the key for an enum, the elements of a   *)
(* tuple for an enum with parameters.  pos counts the entries read, obj    *)
(* holds the value under construction and in the end the value returned,   *)
(* skipped the values read for keys the type does not declare, mpc is      *)
(* "run", "ok" or "err" and merr the error message.                        *)
(***************************************************************************)
VARIABLES decl, input, pos, obj, skipped, mpc, merr

cmpVars == <<a, b, c, pc, eqR, cmpR, hashR, serR>>
decVars == <<phase, stack, built, orig, wire, count, err, feed>>
macVars == <<decl, input, pos, obj, skipped, mpc, merr>>
vars == <<a, b, c, pc, eqR, cmpR, hashR, serR,
          phase, stack, built, orig, wire, count, err, feed,
          decl, input, pos, obj, skipped, mpc, merr>>

\* No decode is running.
DecodeIdle ==
    /\ phase = "idle"
    /\ stack = <<>>
    /\ built = <<>>
    /\ orig = <<>>
    /\ wire = <<>>
    /\ count = 0
    /\ err = <<>>
    /\ feed = <<>>

\* No decode into a serde_impl! type is running.
NoDecl == [kind |-> "none"]
MacroIdle ==
    /\ decl = NoDecl
    /\ input = <<>>
    /\ pos = 0
    /\ obj = <<>>
    /\ skipped = <<>>
    /\ mpc = "idle"
    /\ merr = ""

NoEq == [ab |-> FALSE, ba |-> FALSE]
NoCmp == [aa |-> "Equal", ab |-> "Equal", ba |-> "Equal", bc |-> "Equal", ac |-> "Equal"]
NoHash == [a |-> <<>>, b |-> <<>>]
NoSer == [a |-> <<>>, b |-> <<>>]

InitResults ==
    /\ pc = "eq"
    /\ eqR = NoEq
    /\ cmpR = NoCmp
    /\ hashR = NoHash
    /\ serR = NoSer

\* Two operands; the third is not used.
InitPair ==
    /\ a \in Sample
    /\ b \in Sample
    /\ c = Null
    /\ InitResults
    /\ DecodeIdle
    /\ MacroIdle

\* Three operands.
InitTriple ==
    /\ a \in OrdSample
    /\ b \in OrdSample
    /\ c \in OrdSample
    /\ InitResults
    /\ DecodeIdle
    /\ MacroIdle

\* a == b and b == a
OpEq ==
    /\ pc = "eq"
    /\ eqR' = [ab |-> ObjEq(a, b), ba |-> ObjEq(b, a)]
    /\ pc' = "cmp"
    /\ UNCHANGED <<a, b, c, cmpR, hashR, serR>>
    /\ UNCHANGED <<decVars, macVars>>

\* a.cmp(&a), a.cmp(&b), b.cmp(&a), b.cmp(&c), a.cmp(&c)
OpCmp ==
    /\ pc = "cmp"
    /\ cmpR' = [aa |-> ObjCmp(a, a), ab |-> ObjCmp(a, b), ba |-> ObjCmp(b, a),
                bc |-> ObjCmp(b, c), ac |-> ObjCmp(a, c)]
    /\ pc' = "hash"
    /\ UNCHANGED <<a, b, c, eqR, hashR, serR>>
    /\ UNCHANGED <<decVars, macVars>>

\* a.hash(state) and b.hash(state), each into a fresh hasher
OpHash ==
    /\ pc = "hash"
    /\ hashR' = [a |-> ObjHash(a), b |-> ObjHash(b)]
    /\ pc' = "ser"
    /\ UNCHANGED <<a, b, c, eqR, cmpR, serR>>
    /\ UNCHANGED <<decVars, macVars>>

\* a.serialize(ser) and b.serialize(ser), each into a fresh serializer
OpSerialize ==
    /\ pc = "ser"
    /\ serR' = [a |-> Serialize(a), b |-> Serialize(b)]
    /\ pc' = "done"
    /\ UNCHANGED <<a, b, c, eqR, cmpR, hashR>>
    /\ UNCHANGED <<decVars, macVars>>

NextCmp == OpEq \/ OpCmp \/ OpHash \/ OpSerialize

SpecCmp == InitPair /\ [][NextCmp]_vars

SpecOrd == InitTriple /\ [][NextCmp]_vars

(***************************************************************************)
(* Properties of equality, order and hash, stated on the caller's results. *)
(***************************************************************************)
IsNanObj(o) == o.t = "Float" /\ is_nan(o.v)
IsNumObj(o) == o.t = "Float" /\ ~is_nan(o.v)

\* a is Signed(n) and b is Unsigned(n), or the other way round, with n >= 0.
SameMagnitude ==
    /\ {a.t, b.t} = {"Signed", "Unsigned"}
    /\ a.v >= 0
    /\ a.v = b.v

\* C1: a non-negative Signed(n) and Unsigned(n) are equal in both argument
\* orders, compare Equal in both argument orders, and write the same
\* sequence into the hasher.
C1_CanonicalEquivalence ==
    (pc = "done" /\ SameMagnitude) =>
        /\ eqR.ab /\ eqR.ba
        /\ cmpR.ab = "Equal" /\ cmpR.ba = "Equal"
        /\ hashR.a = hashR.b

C1_Witness == pc = "done" /\ SameMagnitude /\ a.t = "Signed" /\ a.v = 1

\* C2: values that are equal write the same sequence into the hasher.
C2_EqImpliesSameHash ==
    (pc = "done" /\ eqR.ab) => hashR.a = hashR.b

\* C3: a == b exactly when a.cmp(b) is Equal.
C3_EqIffCmpEqual ==
    pc = "done" => (eqR.ab <=> cmpR.ab = "Equal")

Reverse(o) == CASE o = "Less" -> "Greater" [] o = "Greater" -> "Less" [] OTHER -> "Equal"

\* C4: the comparison is a total order: cmp(a, a) is Equal, exactly one of
\* a < b, a == b, a > b holds, cmp(a, b) is the reverse of cmp(b, a), and
\* a < b with b < c gives a < c.
C4_TotalOrder ==
    pc = "done" =>
        /\ cmpR.aa = "Equal"
        /\ Cardinality({x \in {"lt", "eq", "gt"} :
                \/ x = "lt" /\ cmpR.ab = "Less"
                \/ x = "eq" /\ eqR.ab
                \/ x = "gt" /\ cmpR.ab = "Greater"}) = 1
        /\ cmpR.ab = Reverse(cmpR.ba)
        /\ (cmpR.ab = "Less" /\ cmpR.bc = "Less") => cmpR.ac = "Less"

\* C5: a NaN float equals a NaN float, differs from every non-NaN float, and
\* is greater than every non-NaN float (which is less than it).
C5_NanClosure ==
    pc = "done" =>
        /\ (IsNanObj(a) /\ IsNanObj(b)) => (eqR.ab /\ eqR.ba)
        /\ (IsNanObj(a) /\ IsNumObj(b)) =>
              /\ ~eqR.ab /\ ~eqR.ba
              /\ cmpR.ab = "Greater"
              /\ cmpR.ba = "Less"

C5_Witness == pc = "done" /\ IsNanObj(a) /\ IsNumObj(b) /\ b.v = F64(0, FloatExpMax, 0)

\* C6: two NaN floats, whatever their payloads, compare Equal: neither is
\* less nor greater than the other.
C6_NanCmpEqual ==
    (pc = "done" /\ IsNanObj(a) /\ IsNanObj(b)) =>
        cmpR.ab = "Equal" /\ cmpR.ba = "Equal"

\* The ordinal classes, lowest first: Null, Bool, negative Signed, Unsigned
\* or non-negative Signed, Float, Str, Bin, List, Map.
Class(o) ==
    CASE o.t = "Null" -> 0
      [] o.t = "Bool" -> 1
      [] o.t = "Signed" -> IF o.v < 0 THEN 2 ELSE 3
      [] o.t = "Unsigned" -> 3
      [] o.t = "Float" -> 4
      [] o.t = "Str" -> 5
      [] o.t = "Bin" -> 6
      [] o.t = "List" -> 7
      [] o.t = "Map" -> 8

\* C7: values of different ordinal classes compare by class alone, whatever
\* their payloads: the lower class is Less, the higher Greater.
C7_ClassPrecedence ==
    (pc = "done" /\ Class(a) < Class(b)) =>
        cmpR.ab = "Less" /\ cmpR.ba = "Greater"

C7_Witness == pc = "done" /\ a = Signed(0 - 1) /\ b = Unsigned(0)

BothMaps == a.t = "Map" /\ b.t = "Map"

\* C12 as stated: two maps that are equal serialize identically, with the
\* same event kinds and payloads in the same order.
C12_EqualMapsSerializeIdentically ==
    (pc = "done" /\ BothMaps /\ eqR.ab) => serR.a = serR.b

\* Two events that differ at most by what equality looks through: the
\* signedness of a non-negative integer, and the bits of two floats that
\* are both NaN or numerically equal.
EvAlike(x, y) ==
    \/ x.e = y.e /\ x.e # "f64" /\ x.v = y.v
    \/ x.e = "f64" /\ y.e = "f64"
          /\ ((is_nan(x.v) /\ is_nan(y.v)) \/ F64Eq(x.v, y.v))
    \/ {x.e, y.e} = {"i64", "u64"} /\ x.v >= 0 /\ x.v = y.v

\* C12: two maps that are equal serialize to as many events, in the same
\* order, and each event of one has the kind and payload of its counterpart
\* except that a non-negative integer may be a signed event in one and an
\* unsigned event in the other, and a float may carry other bits of an
\* equal float.
C12_EqualMapsSerializeAlike ==
    (pc = "done" /\ BothMaps /\ eqR.ab) =>
        /\ Len(serR.a) = Len(serR.b)
        /\ \A i \in 1..Len(serR.a) : EvAlike(serR.a[i], serR.b[i])

C12_Witness ==
    /\ pc = "done"
    /\ a = Map(<< <<Unsigned(1), Null>> >>)
    /\ b = Map(<< <<Signed(1), Null>> >>)
    /\ eqR.ab
    /\ serR.a # serR.b

BothLists == a.t = "List" /\ b.t = "List"

\* The first position at which the elements of two lists do not compare
\* Equal, 0 when there is none within the shorter list.
FirstDecided(x, y) ==
    LET n == IF Len(x) < Len(y) THEN Len(x) ELSE Len(y)
        at == {i \in 1..n : ObjCmp(x[i], y[i]) # "Equal"}
    IN  IF at = {} THEN 0 ELSE CHOOSE i \in at : \A j \in at : i <= j

\* C19: two lists compare as their elements do at the first position where
\* the elements do not compare Equal; with no such position the shorter
\* list is the lesser, so a proper prefix is strictly less.
C19_ListsLexicographic ==
    (pc = "done" /\ BothLists) =>
        LET i == FirstDecided(a.v, b.v)
        IN  cmpR.ab = IF i # 0 THEN ObjCmp(a.v[i], b.v[i])
                      ELSE IntCmp(Len(a.v), Len(b.v))

C19_Witness ==
    /\ pc = "done"
    /\ a = List(<<Null>>)
    /\ b = List(<<Bool(FALSE)>>)
    /\ cmpR.ab = "Less" /\ cmpR.ba = "Greater"

(***************************************************************************)
(* GenericVisitor.  Each visit_* method returns an Obj to its caller: the  *)
(* enclosing visit_seq pushes it, the enclosing visit_map receives it as   *)
(* the key or as the value of the next entry and inserts the entry, and    *)
(* with no enclosing call it is the result of Obj::deserialize.  A visit   *)
(* takes the calls in progress and gives the calls in progress and the     *)
(* result, <<>> while there is none.                                       *)
(***************************************************************************)
\* Vec::with_capacity(visitor.size_hint().0) and BTreeMap::new(): cap is the
\* capacity reserved on entry, before any element has arrived.
SeqFrame(hint) == [kind |-> "seq", items |-> <<>>, key |-> <<>>, fed |-> <<>>, cap |-> hint]
MapFrame == [kind |-> "map", items |-> <<>>, key |-> <<>>, fed |-> <<>>, cap |-> 0]

\* Receive with the list filled from the front instead of pushed to.
ReceiveAtFront(f, value) ==
    IF f.kind = "seq" THEN [f EXCEPT !.items = <<value>> \o f.items]
    ELSE IF f.key = <<>> THEN [f EXCEPT !.key = <<value>>]
    ELSE [f EXCEPT !.items = BTreeMapInsert(f.items, f.key[1], value),
                   !.key = <<>>,
                   !.fed = Append(f.fed, <<f.key[1], value>>)]

\* list.push(value) in visit_seq; map.insert(key, value) in visit_map once
\* the map visitor has both halves of the entry.
Receive(f, value) ==
    IF f.kind = "seq" THEN [f EXCEPT !.items = Append(f.items, value)]
    ELSE IF f.key = <<>> THEN [f EXCEPT !.key = <<value>>]
    ELSE [f EXCEPT !.items = BTreeMapInsert(f.items, f.key[1], value),
                   !.key = <<>>,
                   !.fed = Append(f.fed, <<f.key[1], value>>)]

\* Ok(value) returned to the innermost call in progress.
Return(stk, value) ==
    IF stk = <<>>
    THEN [stack |-> <<>>, built |-> <<value>>]
    ELSE [stack |-> [stk EXCEPT ![Len(stk)] = Receive(stk[Len(stk)], value)],
          built |-> <<>>]

visit_none(stk) == Return(stk, Null)
visit_bool(stk, val) == Return(stk, Bool(val))
visit_u64(stk, val) == Return(stk, Unsigned(val))
\* visit_i64 giving a non-negative value as Unsigned.
visit_i64_canonical(stk, val) ==
    Return(stk, IF val >= 0 THEN Unsigned(val) ELSE Signed(val))

visit_i64(stk, val) == Return(stk, Signed(val))
visit_f64(stk, val) == Return(stk, Float(val))
\* visit_str and visit_string
visit_str(stk, val) == Return(stk, Str(val))
\* visit_bytes and visit_byte_buf
visit_bytes(stk, val) == Return(stk, Bin(val))

\* try!(visitor.visit()) and try!(visitor.end()) on Err(e): the call returns
\* Err(e), and so does every enclosing call, whose own visit it fails.  The
\* lists and maps under construction are dropped.
FailKeepsPartial(stk, e) ==
    [stack |-> <<>>,
     built |-> <<IF stk[1].kind = "seq" THEN List(stk[1].items) ELSE Map(stk[1].items)>>,
     err |-> <<e>>]

Fail(stk, e) == [stack |-> <<>>, built |-> <<>>, err |-> <<e>>]

\* visit_seq is entered with an empty list of the hinted capacity,
\* visit_map with an empty map.
visit_seq_enter(stk, hint) == [stack |-> Append(stk, SeqFrame(hint)), built |-> <<>>]
visit_map_enter(stk) == [stack |-> Append(stk, MapFrame), built |-> <<>>]

\* visitor.visit() is None and visitor.end() is Ok: Ok(Obj::List(list)),
\* Ok(Obj::Map(map)).
visit_seq_end(stk) ==
    Return(SubSeq(stk, 1, Len(stk) - 1), List(stk[Len(stk)].items))
visit_map_end(stk) ==
    Return(SubSeq(stk, 1, Len(stk) - 1), Map(stk[Len(stk)].items))

\* An end event is well placed: it closes the innermost call, and a map is
\* not closed between a key and its value.
CanEnd(stk) ==
    /\ stk # <<>>
    /\ stk[Len(stk)].kind = "map" => stk[Len(stk)].key = <<>>

\* de.deserialize(GenericVisitor): the visitor method for one event.
Dispatch(stk, ev) ==
    CASE ev.e = "none" -> visit_none(stk)
      [] ev.e = "bool" -> visit_bool(stk, ev.v)
      [] ev.e = "u64" -> visit_u64(stk, ev.v)
      [] ev.e = "i64" -> visit_i64(stk, ev.v)
      [] ev.e = "f64" -> visit_f64(stk, ev.v)
      [] ev.e = "str" -> visit_str(stk, ev.v)
      [] ev.e = "bytes" -> visit_bytes(stk, ev.v)
      [] ev.e = "seq" -> visit_seq_enter(stk, ev.v)
      [] ev.e = "map" -> visit_map_enter(stk)
      [] ev.e = "end" ->
            IF stk[Len(stk)].kind = "seq" THEN visit_seq_end(stk)
            ELSE visit_map_end(stk)

\* Obj::deserialize over a whole event stream: the result, or <<>> when the
\* stream ends before the value is complete.
RECURSIVE Run(_, _)
Run(stk, evs) ==
    IF evs = <<>> THEN <<>>
    ELSE LET r == Dispatch(stk, Head(evs))
         IN  IF r.built # <<>> THEN r.built ELSE Run(r.stack, Tail(evs))

Deserialize(evs) == Run(<<>>, evs)

\* What a wire format makes of the serializer's events: it either keeps the
\* signedness of integers or reports every non-negative integer as unsigned.
OnWire(evs, keepsSign) ==
    [i \in 1..Len(evs) |->
        IF ~keepsSign /\ evs[i].e = "i64" /\ evs[i].v >= 0
        THEN Ev("u64", evs[i].v) ELSE evs[i]]

(***************************************************************************)
(* A decode driven by an event source, one event at a time, then the       *)
(* round trip of the built value through Obj::serialize and                *)
(* Obj::deserialize.                                                       *)
(***************************************************************************)
\* The values an event source delivers, and the most values in one decode.
MaxEvents == 5
SrcBools == {TRUE}
SrcU64 == {1}
SrcI64 == {1}
SrcF64 == {NanA}
SrcStrs == {<<97>>}
SrcBytes == {<<0>>}

\* The size hints an event source gives for a sequence, whatever number of
\* elements it goes on to deliver, and the errors it reports.
MaxHint == 2
SrcHints == {0, MaxHint}
SrcErrors == {"Syntax", "UnexpectedEof"}

Decoding == phase = "build" /\ built = <<>>

\* The event source has a value to report.
HasValue == Decoding /\ count < MaxEvents

\* The visit gave r.
Visited(r) ==
    /\ stack' = r.stack
    /\ built' = r.built
    /\ count' = count + 1
    /\ UNCHANGED <<phase, orig, wire, err, feed>>
    /\ UNCHANGED <<cmpVars, macVars>>

VisitNone == HasValue /\ Visited(visit_none(stack))

VisitBool == \E val \in SrcBools : HasValue /\ Visited(visit_bool(stack, val))

VisitU64 == \E val \in SrcU64 : HasValue /\ Visited(visit_u64(stack, val))

VisitI64 == \E val \in SrcI64 : HasValue /\ Visited(visit_i64(stack, val))

VisitF64 == \E val \in SrcF64 : HasValue /\ Visited(visit_f64(stack, val))

VisitStr == \E val \in SrcStrs : HasValue /\ Visited(visit_str(stack, val))

VisitBytes == \E val \in SrcBytes : HasValue /\ Visited(visit_bytes(stack, val))

VisitSeq == \E hint \in SrcHints : HasValue /\ Visited(visit_seq_enter(stack, hint))

VisitMap == HasValue /\ Visited(visit_map_enter(stack))

\* The decode failed with r.
Failed(r) ==
    /\ stack' = r.stack
    /\ built' = r.built
    /\ err' = r.err
    /\ phase' = "failed"
    /\ UNCHANGED <<orig, wire, count, feed>>
    /\ UNCHANGED <<cmpVars, macVars>>

\* The event source reports an error in place of the next element, key or
\* value of the innermost sequence or map.
VisitFails ==
    \E e \in SrcErrors : Decoding /\ stack # <<>> /\ Failed(Fail(stack, e))

\* The event source reports an error at the end of the innermost sequence
\* or map.
EndFails ==
    \E e \in SrcErrors : Decoding /\ CanEnd(stack) /\ Failed(Fail(stack, e))

SeqEnd ==
    /\ Decoding
    /\ CanEnd(stack)
    /\ stack[Len(stack)].kind = "seq"
    /\ LET r == visit_seq_end(stack)
       IN  stack' = r.stack /\ built' = r.built
    /\ UNCHANGED <<phase, orig, wire, count, err, feed>>
    /\ UNCHANGED <<cmpVars, macVars>>

MapEnd ==
    /\ Decoding
    /\ CanEnd(stack)
    /\ stack[Len(stack)].kind = "map"
    /\ LET r == visit_map_end(stack)
       IN  stack' = r.stack /\ built' = r.built
    /\ UNCHANGED <<phase, orig, wire, count, err, feed>>
    /\ UNCHANGED <<cmpVars, macVars>>

\* Obj::serialize of the built value.
Emit ==
    /\ phase = "build"
    /\ built # <<>>
    /\ wire' = Serialize(built[1])
    /\ orig' = built
    /\ built' = <<>>
    /\ phase' = "wire"
    /\ UNCHANGED <<stack, count, err, feed>>
    /\ UNCHANGED <<cmpVars, macVars>>

\* Obj::deserialize of what is on the wire, as the wire format reports it.
Decode ==
    /\ phase = "wire"
    /\ \E keepsSign \in BOOLEAN : built' = Deserialize(OnWire(wire, keepsSign))
    /\ phase' = "done"
    /\ UNCHANGED <<stack, orig, wire, count, err, feed>>
    /\ UNCHANGED <<cmpVars, macVars>>

\* No caller is comparing.
CmpIdle ==
    /\ a = Null /\ b = Null /\ c = Null
    /\ pc = "idle"
    /\ eqR = NoEq /\ cmpR = NoCmp /\ hashR = NoHash /\ serR = NoSer

Init ==
    /\ CmpIdle
    /\ MacroIdle
    /\ phase = "build"
    /\ stack = <<>>
    /\ built = <<>>
    /\ orig = <<>>
    /\ wire = <<>>
    /\ count = 0
    /\ err = <<>>
    /\ feed = <<>>

Next ==
    \/ VisitNone \/ VisitBool \/ VisitU64 \/ VisitI64 \/ VisitF64
    \/ VisitStr \/ VisitBytes
    \/ VisitSeq \/ SeqEnd \/ VisitMap \/ MapEnd
    \/ VisitFails \/ EndFails
    \/ Emit \/ Decode

Spec == Init /\ [][Next]_vars

(***************************************************************************)
(* One visit_map over the same entries in every arrival order: a map       *)
(* source is given entries to deliver, and Obj::deserialize reads them.    *)
(***************************************************************************)
MaxEntries == 3
FeedKeys ==
    {Null, Unsigned(1), Float(NanA), Str(<<97>>),
     List(<<Float(NanA)>>), List(<<Float(NanA), Null>>)}
FeedVals == {Null, Bool(TRUE)}
Feeds == [1..MaxEntries -> FeedKeys \X FeedVals]

\* The events of a map source that delivers entries in this order.
EntryEvents(entries) ==
    <<Ev("map", Len(entries))>> \o SerializeEntries(entries, 1) \o <<Ev("end", 0)>>

InitFeed ==
    /\ CmpIdle
    /\ MacroIdle
    /\ feed \in Feeds
    /\ wire = EntryEvents(feed)
    /\ phase = "wire"
    /\ stack = <<>>
    /\ built = <<>>
    /\ orig = <<>>
    /\ count = 0
    /\ err = <<>>

SpecFeed == InitFeed /\ [][Decode]_vars

(***************************************************************************)
(* Properties of the build and emit protocol.                              *)
(***************************************************************************)
\* C8: the events Obj::serialize produces for a built value, fed back
\* through Obj::deserialize, give a value equal to it, also on a wire that
\* reports a non-negative Signed as unsigned.
C8_RoundTrip ==
    phase = "done" =>
        /\ built # <<>>
        /\ ObjEq(orig[1], built[1])
        /\ ObjEq(built[1], orig[1])

C8_Witness ==
    /\ phase = "done"
    /\ orig = <<Map(<< <<Signed(1), List(<<Float(NanA), Null>>)>> >>)>>
    /\ built = <<Map(<< <<Unsigned(1), List(<<Float(NanA), Null>>)>> >>)>>

\* The maps visit_map has under construction with no entry half read.
OpenMaps == {d \in 1..Len(stack) : stack[d].kind = "map" /\ stack[d].key = <<>>}

\* The places of the map m whose key equals k.
Holding(m, k) == {n \in 1..Len(m) : ObjEq(m[n][1], k)}

\* The last entry among fed whose key equals k.
LastFed(fed, k) ==
    CHOOSE j \in 1..Len(fed) :
        /\ ObjEq(fed[j][1], k)
        /\ \A j2 \in (j + 1)..Len(fed) : ~ObjEq(fed[j2][1], k)

\* C9: an entry whose key equals the key of an earlier entry adds no entry
\* but replaces the value: the map holds every key that arrived exactly
\* once, with the value of the last entry that carried an equal key.
C9_LastWriteWins ==
    \A d \in OpenMaps :
        \A i \in 1..Len(stack[d].fed) :
            LET k == stack[d].fed[i][1]
                hits == Holding(stack[d].items, k)
            IN  /\ Cardinality(hits) = 1
                /\ \A n \in hits :
                      stack[d].items[n][2] = stack[d].fed[LastFed(stack[d].fed, k)][2]

\* C10: a map never holds two entries whose keys are equal.
C10_KeysUnique ==
    \A d \in 1..Len(stack) :
        stack[d].kind = "map" =>
            \A i, j \in 1..Len(stack[d].items) :
                i # j => ~ObjEq(stack[d].items[i][1], stack[d].items[j][1])

\* The entries among fed whose key compares Equal to k.
FedEqual(fed, k) == {i \in 1..Len(fed) : ObjCmp(fed[i][1], k) = "Equal"}

\* C21: of the entries whose keys compare Equal, the map holds one entry:
\* the key as it first arrived, variant tag included, with the value that
\* arrived last, and serializing it emits the event of that first key
\* followed by the events of that last value.
C21_FirstKeyLastValue ==
    \A d \in OpenMaps :
        \A j \in 1..Len(stack[d].fed) :
            LET fed == stack[d].fed
                items == stack[d].items
                eqs == FedEqual(fed, fed[j][1])
                first == CHOOSE i \in eqs : \A i2 \in eqs : i <= i2
                last == CHOOSE i \in eqs : \A i2 \in eqs : i2 <= i
                hits == {n \in 1..Len(items) : ObjCmp(items[n][1], fed[j][1]) = "Equal"}
            IN  eqs # {} =>
                    /\ Cardinality(hits) = 1
                    /\ \A n \in hits :
                          /\ items[n] = <<fed[first][1], fed[last][2]>>
                          /\ SerializeEntries(<<items[n]>>, 1) =
                                Serialize(fed[first][1]) \o Serialize(fed[last][2])

C21_Witness ==
    /\ phase = "build"
    /\ Len(stack) = 1
    /\ stack[1].kind = "map"
    /\ stack[1].fed = << <<Unsigned(1), Null>>, <<Signed(1), Bool(TRUE)>> >>
    /\ stack[1].items = << <<Unsigned(1), Bool(TRUE)>> >>

(***************************************************************************)
(* Properties of building maps and lists from an event source.             *)
(***************************************************************************)
Perms(n) == {p \in [1..n -> 1..n] : \A i, j \in 1..n : p[i] = p[j] => i = j}

DistinctKeys(es) ==
    \A i, j \in 1..Len(es) : i # j => ~ObjEq(es[i][1], es[j][1])

Ascending(m) ==
    \A i \in 1..(Len(m) - 1) : ObjCmp(m[i][1], m[i + 1][1]) = "Less"

\* C11: entries whose keys are pairwise not equal give the same Map in
\* every arrival order, and that Map holds them in ascending order of key.
C11_ArrivalOrderIndependent ==
    (phase = "done" /\ feed # <<>> /\ DistinctKeys(feed)) =>
        /\ built # <<>>
        /\ Ascending(built[1].v)
        /\ \A p \in Perms(Len(feed)) :
              Deserialize(EntryEvents([i \in 1..Len(feed) |-> feed[p[i]]])) = built

\* C13: a decode that nests deeper than the ceiling has failed with
\* NestingTooDeep: no more than MaxDepth visit_seq / visit_map calls are
\* ever in progress.
MaxDepth == 3
C13_DepthLimit ==
    Len(stack) > MaxDepth => (phase = "failed" /\ err = <<"NestingTooDeep">>)

\* C14: the capacity visit_seq reserves before any element has arrived is
\* bounded whatever the hint: it stays below the largest hint a source
\* gives.
C14_CapacityBounded ==
    \A d \in 1..Len(stack) :
        (stack[d].kind = "seq" /\ stack[d].items = <<>>) => stack[d].cap < MaxHint

\* C15: when the event source reports an error in place of an element, a
\* key, a value or the end of a sequence or map, the decode returns an
\* error the source reports and no Obj, no list or map stays under
\* construction, and the failed decode takes no further step.
C15_AllOrNothing ==
    [][/\ phase # "failed"
       /\ (VisitFails \/ EndFails) =>
             /\ built' = <<>>
             /\ stack' = <<>>
             /\ \E e \in SrcErrors : err' = <<e>>]_vars

C15_Witness ==
    /\ phase = "failed"
    /\ err = <<"UnexpectedEof">>
    /\ count = 3
    /\ built = <<>>

\* The value the last visit returned to its caller.
Delivered(stk, blt) ==
    IF blt # <<>> THEN blt[1]
    ELSE LET f == stk[Len(stk)]
         IN  IF f.kind = "seq" THEN f.items[Len(f.items)]
             ELSE IF f.key # <<>> THEN f.key[1]
             ELSE f.fed[Len(f.fed)][2]

\* The integers of a value, in the order Obj::serialize comes to them, each
\* as the event of its variant.
RECURSIVE IntLeaves(_)

RECURSIVE IntLeavesOfElems(_, _)
IntLeavesOfElems(val, i) ==
    IF i > Len(val) THEN <<>>
    ELSE IntLeaves(val[i]) \o IntLeavesOfElems(val, i + 1)

RECURSIVE IntLeavesOfEntries(_, _)
IntLeavesOfEntries(val, i) ==
    IF i > Len(val) THEN <<>>
    ELSE IntLeaves(val[i][1]) \o IntLeaves(val[i][2]) \o IntLeavesOfEntries(val, i + 1)

IntLeaves(o) ==
    CASE o.t = "Unsigned" -> <<Ev("u64", o.v)>>
      [] o.t = "Signed" -> <<Ev("i64", o.v)>>
      [] o.t = "List" -> IntLeavesOfElems(o.v, 1)
      [] o.t = "Map" -> IntLeavesOfEntries(o.v, 1)
      [] OTHER -> <<>>

IsIntEvent(ev) == ev.e \in {"u64", "i64"}
IntEvents(evs) == SelectSeq(evs, IsIntEvent)

\* C20: an unsigned event builds an Unsigned and a signed event a Signed of
\* the same payload, also when it is not negative; serializing emits an
\* unsigned event for every Unsigned and a signed event for every Signed,
\* with the stored payload.
C20_TagKept ==
    [][/\ VisitU64 =>
             LET o == Delivered(stack', built')
             IN  o.t = "Unsigned" /\ o.v \in SrcU64
       /\ VisitI64 =>
             LET o == Delivered(stack', built')
             IN  o.t = "Signed" /\ o.v \in SrcI64
       /\ Emit => IntEvents(wire') = IntLeaves(built[1])]_vars

C20_Witness ==
    /\ phase = "wire"
    /\ orig = <<List(<<Signed(1), Unsigned(1)>>)>>
    /\ wire = <<Ev("seq", 2), Ev("i64", 1), Ev("u64", 1), Ev("end", 0)>>

(***************************************************************************)
(* serde_impl!: the types the tests declare.  A struct as map lists its    *)
(* fields with type and key, an enum its variants with key, an enum with   *)
(* parameters its variants with parameter type and key.  Keys, field       *)
(* values and parameters are written as the Obj they serialize to.         *)
(***************************************************************************)
Field(fname, ftype, fkey) == [fname |-> fname, ftype |-> ftype, fkey |-> fkey]
Variant(variant, ftype, fkey) == [variant |-> variant, ftype |-> ftype, fkey |-> fkey]

\* "test", "num", "option", "a", "b", "c" as UTF-8 bytes
KTest == Str(<<116, 101, 115, 116>>)
KNum == Str(<<110, 117, 109>>)
KOption == Str(<<111, 112, 116, 105, 111, 110>>)
KA == Str(<<97>>)
KB == Str(<<98>>)
KC == Str(<<99>>)

IntMapTest ==
    [kind |-> "struct", ktype |-> "u64",
     fields |-> <<Field("test", "String", Unsigned(0)), Field("num", "u64", Unsigned(1)),
                  Field("option", "Option<bool>", Unsigned(2))>>]
IntMapTestReduced ==
    [kind |-> "struct", ktype |-> "u64",
     fields |-> <<Field("test", "String", Unsigned(0)),
                  Field("option", "Option<bool>", Unsigned(2))>>]
StrMapTest ==
    [kind |-> "struct", ktype |-> "String",
     fields |-> <<Field("test", "String", KTest), Field("num", "u64", KNum),
                  Field("option", "Option<bool>", KOption)>>]
StrMapTestReduced ==
    [kind |-> "struct", ktype |-> "String",
     fields |-> <<Field("test", "String", KTest),
                  Field("option", "Option<bool>", KOption)>>]

IntEnumTest ==
    [kind |-> "enum", ktype |-> "u64",
     variants |-> <<Variant("A", "()", Unsigned(0)), Variant("B", "()", Unsigned(1)),
                    Variant("C", "()", Unsigned(2))>>]
IntEnumTestReduced ==
    [kind |-> "enum", ktype |-> "u64",
     variants |-> <<Variant("A", "()", Unsigned(0)), Variant("C", "()", Unsigned(2))>>]
StrEnumTest ==
    [kind |-> "enum", ktype |-> "String",
     variants |-> <<Variant("A", "()", KA), Variant("B", "()", KB), Variant("C", "()", KC)>>]
StrEnumTestReduced ==
    [kind |-> "enum", ktype |-> "String",
     variants |-> <<Variant("A", "()", KA), Variant("C", "()", KC)>>]

IntParamEnumTest ==
    [kind |-> "penum", ktype |-> "u64",
     variants |-> <<Variant("A", "u64", Unsigned(0)), Variant("B", "bool", Unsigned(1)),
                    Variant("C", "String", Unsigned(2))>>]
IntParamEnumTestReduced ==
    [kind |-> "penum", ktype |-> "u64",
     variants |-> <<Variant("A", "u64", Unsigned(0)), Variant("C", "String", Unsigned(2))>>]
StrParamEnumTest ==
    [kind |-> "penum", ktype |-> "String",
     variants |-> <<Variant("A", "u64", KA), Variant("B", "bool", KB),
                    Variant("C", "String", KC)>>]
StrParamEnumTestReduced ==
    [kind |-> "penum", ktype |-> "String",
     variants |-> <<Variant("A", "u64", KA), Variant("C", "String", KC)>>]

StructDecls == {IntMapTest, IntMapTestReduced, StrMapTest, StrMapTestReduced}
EnumDecls == {IntEnumTest, IntEnumTestReduced, StrEnumTest, StrEnumTestReduced}
ParamEnumDecls ==
    {IntParamEnumTest, IntParamEnumTestReduced, StrParamEnumTest, StrParamEnumTestReduced}

\* T::deserialize for the types of keys, fields and parameters, on the
\* events of the value o: <<the value>>, or <<>> for an error.
DeserializeAs(type, o) ==
    CASE type = "u64" ->
            IF o.t = "Unsigned" THEN <<o>>
            ELSE IF o.t = "Signed" /\ o.v >= 0 THEN <<Unsigned(o.v)>>
            ELSE <<>>
      [] type = "String" -> IF o.t = "Str" THEN <<o>> ELSE <<>>
      [] type = "bool" -> IF o.t = "Bool" THEN <<o>> ELSE <<>>
      [] type = "Option<bool>" -> IF o.t \in {"Null", "Bool"} THEN <<o>> ELSE <<>>

\* Default::default() of a field type: "", 0, None.
DefaultOf(ftype) ==
    CASE ftype = "String" -> Str(<<>>)
      [] ftype = "u64" -> Unsigned(0)
      [] ftype = "Option<bool>" -> Null

FieldNames(d) == {d.fields[i].fname : i \in 1..Len(d.fields)}
FieldOf(d, fname) == d.fields[CHOOSE i \in 1..Len(d.fields) : d.fields[i].fname = fname]

\* A struct whose fields all hold None.
StructAllNone(d) == [fname \in FieldNames(d) |-> Null]

\* let mut obj: $name = Default::default()
StructDefault(d) == [fname \in FieldNames(d) |-> DefaultOf(FieldOf(d, fname).ftype)]

\* The first of the declared keys that key == $fkey holds for, 0 for none.
FirstWithKey(declared, key) ==
    LET hits == {i \in 1..Len(declared) : declared[i].fkey = key}
    IN  IF hits = {} THEN 0 ELSE CHOOSE i \in hits : \A j \in hits : i <= j

Going(o, skp) == [obj |-> <<o>>, skipped |-> skp, err |-> ""]
Erred(msg) == [obj |-> <<>>, skipped |-> <<>>, err |-> msg]

\* let _skip: _DummyObjToSkipUnknownFields = visitor.next_value()?: the
\* events of the value o go through Obj::deserialize.
SkipValue(o) == Deserialize(Serialize(o))

\* One turn of the loop that refuses a key the struct does not declare.
visit_map_entry_strict(d, o, skp, entry) ==
    LET key == DeserializeAs(d.ktype, entry[1])
        i == IF key = <<>> THEN 0 ELSE FirstWithKey(d.fields, key[1])
    IN  IF i = 0 THEN Erred("unknown field")
        ELSE LET v == DeserializeAs(d.fields[i].ftype, entry[2])
             IN  IF v = <<>> THEN Erred("invalid type")
                 ELSE Going([o EXCEPT ![d.fields[i].fname] = v[1]], skp)

\* One turn of the loop of visit_map for a struct as map: next_key, then
\* next_value into the field the key names, or into an Obj that is dropped.
visit_map_entry(d, o, skp, entry) ==
    LET key == DeserializeAs(d.ktype, entry[1])
        i == IF key = <<>> THEN 0 ELSE FirstWithKey(d.fields, key[1])
    IN  IF key = <<>> THEN Erred("invalid type")
        ELSE IF i # 0
        THEN LET v == DeserializeAs(d.fields[i].ftype, entry[2])
             IN  IF v = <<>> THEN Erred("invalid type")
                 ELSE Going([o EXCEPT ![d.fields[i].fname] = v[1]], skp)
        ELSE LET v == SkipValue(entry[2])
             IN  IF v = <<>> THEN Erred("invalid type")
                 ELSE Going(o, Append(skp, v[1]))

\* The variant an undeclared key falls back to: the first one.
MatchVariantOrFirst(d, key) ==
    LET i == FirstWithKey(d.variants, key)
    IN  IF i = 0 THEN <<d.variants[1]>> ELSE <<d.variants[i]>>

\* $( if key == $fkey { return Ok(..) } )*: the variant, or <<>> for none.
MatchVariant(d, key) ==
    LET i == FirstWithKey(d.variants, key)
    IN  IF i = 0 THEN <<>> ELSE <<d.variants[i]>>

\* A value of an enum: the variant and, with parameters, its parameter.
EnumValue(variant, param) == [variant |-> variant, param |-> param]

\* Serialize for an enum: the key of the variant.
EnumSerialize(d, variant) ==
    d.variants[CHOOSE i \in 1..Len(d.variants) : d.variants[i].variant = variant].fkey

\* Deserialize for an enum.
EnumDeserialize(d, events) ==
    LET key == DeserializeAs(d.ktype, events[1])
        m == IF key = <<>> THEN <<>> ELSE MatchVariant(d, key[1])
    IN  IF key = <<>> THEN Erred("invalid type")
        ELSE IF m = <<>> THEN Erred("Invalid enum discriminator")
        ELSE Going(EnumValue(m[1].variant, <<>>), <<>>)

\* visit_seq for an enum with parameters, over the elements of the tuple.
ParamEnumDeserialize(d, elements) ==
    IF Len(elements) < 1 THEN Erred("Enums must be encoded as tuples")
    ELSE LET key == DeserializeAs(d.ktype, elements[1])
             m == IF key = <<>> THEN <<>> ELSE MatchVariant(d, key[1])
         IN  IF key = <<>> THEN Erred("invalid type")
             ELSE IF m = <<>> THEN Erred("Invalid enum discriminator")
             ELSE IF Len(elements) < 2 THEN Erred("Enums must be encoded as tuples")
             ELSE LET v == DeserializeAs(m[1].ftype, elements[2])
                  IN  IF v = <<>> THEN Erred("invalid type")
                      ELSE Going(EnumValue(m[1].variant, v), <<>>)

(***************************************************************************)
(* A decode into a serde_impl! type, the struct one map entry at a time.   *)
(***************************************************************************)
\* What an event source delivers: keys of the key type, values of any type.
SrcKeys(ktype) ==
    IF ktype = "u64" THEN {Unsigned(0), Unsigned(1), Unsigned(2)}
    ELSE {KTest, KNum, KOption}
SrcEnumKeys(ktype) ==
    IF ktype = "u64" THEN {Unsigned(0), Unsigned(1), Unsigned(2), Unsigned(3)}
    ELSE {KA, KB, KC, KTest}
SrcValues == {Str(<<97>>), Unsigned(1), Bool(TRUE), List(<<Unsigned(1)>>)}

Inputs(d) ==
    CASE d.kind = "struct" -> SeqsUpTo(SrcKeys(d.ktype) \X SrcValues, MaxEntries)
      [] d.kind = "enum" -> {<<key>> : key \in SrcEnumKeys(d.ktype)}
      [] d.kind = "penum" ->
            {<<>>} \cup {<<key>> : key \in SrcEnumKeys(d.ktype)}
            \cup {<<key, v>> : key \in SrcEnumKeys(d.ktype), v \in SrcValues}

InitMacro ==
    /\ CmpIdle
    /\ DecodeIdle
    /\ decl \in StructDecls \cup EnumDecls \cup ParamEnumDecls
    /\ input \in Inputs(decl)
    /\ pos = 0
    /\ obj = IF decl.kind = "struct" THEN <<StructDefault(decl)>> ELSE <<>>
    /\ skipped = <<>>
    /\ mpc = "run"
    /\ merr = ""

\* The decode went on with, or ended in, r.
Decoded(r, then) ==
    /\ obj' = r.obj
    /\ skipped' = r.skipped
    /\ merr' = r.err
    /\ mpc' = IF r.err = "" THEN then ELSE "err"
    /\ UNCHANGED <<decl, input>>
    /\ UNCHANGED <<cmpVars, decVars>>

\* while let Some(key) = visitor.next_key()? { .. }: one entry.
StructEntry ==
    /\ mpc = "run"
    /\ decl.kind = "struct"
    /\ pos < Len(input)
    /\ pos' = pos + 1
    /\ Decoded(visit_map_entry(decl, obj[1], skipped, input[pos + 1]), "run")

\* next_key is None: Ok(obj).
StructEnd ==
    /\ mpc = "run"
    /\ decl.kind = "struct"
    /\ pos = Len(input)
    /\ mpc' = "ok"
    /\ UNCHANGED <<decl, input, pos, obj, skipped, merr>>
    /\ UNCHANGED <<cmpVars, decVars>>

EnumDecode ==
    /\ mpc = "run"
    /\ decl.kind = "enum"
    /\ pos' = pos
    /\ Decoded(EnumDeserialize(decl, input), "ok")

ParamEnumDecode ==
    /\ mpc = "run"
    /\ decl.kind = "penum"
    /\ pos' = pos
    /\ Decoded(ParamEnumDeserialize(decl, input), "ok")

NextMacro == StructEntry \/ StructEnd \/ EnumDecode \/ ParamEnumDecode

SpecMacro == InitMacro /\ [][NextMacro]_vars

(***************************************************************************)
(* Properties of decoding into serde_impl! types.                          *)
(***************************************************************************)
\* The entries of es under the key of the i-th field of d.
EntriesOf(d, es, i) == {n \in 1..Len(es) : es[n][1] = d.fields[i].fkey}

\* The entries of es under keys d does not declare.
Undeclared(d, es) == {n \in 1..Len(es) : FirstWithKey(d.fields, es[n][1]) = 0}

\* Every value under a declared key is of the type of its field.
WellTyped(d, es) ==
    \A i \in 1..Len(d.fields) : \A n \in EntriesOf(d, es, i) :
        DeserializeAs(d.fields[i].ftype, es[n][2]) # <<>>

\* The i-th field of o holds what the last entry under its key carried.
HoldsOwnValue(d, es, o, i) ==
    LET at == EntriesOf(d, es, i)
        last == CHOOSE n \in at : \A n2 \in at : n2 <= n
    IN  o[d.fields[i].fname] = DeserializeAs(d.fields[i].ftype, es[last][2])[1]

\* The values of es at the places ns, in order.
RECURSIVE ValuesAt(_, _, _)
ValuesAt(es, ns, n) ==
    IF n > Len(es) THEN <<>>
    ELSE (IF n \in ns THEN <<es[n][2]>> ELSE <<>>) \o ValuesAt(es, ns, n + 1)

\* C16: a struct as map decoded from a map that also carries keys the
\* struct does not declare succeeds; every value under such a key is read
\* as an Obj, whole, and every declared field that the map carries holds
\* its own value.
C16_UnknownFieldsTolerated ==
    (mpc \in {"ok", "err"} /\ decl.kind = "struct" /\ WellTyped(decl, input)) =>
        /\ mpc = "ok"
        /\ skipped = ValuesAt(input, Undeclared(decl, input), 1)
        /\ \A i \in 1..Len(decl.fields) :
              EntriesOf(decl, input, i) # {} => HoldsOwnValue(decl, input, obj[1], i)

C16_Witness ==
    /\ mpc = "ok"
    /\ decl = IntMapTestReduced
    /\ input = << <<Unsigned(0), Str(<<97>>)>>, <<Unsigned(1), List(<<Unsigned(1)>>)>>,
                  <<Unsigned(2), Bool(TRUE)>> >>
    /\ skipped = <<List(<<Unsigned(1)>>)>>
    /\ obj[1]["test"] = Str(<<97>>)

\* C17: after a successful decode a declared field that the map does not
\* carry holds the default of its type, and a field that the map carries
\* holds the decoded value.
C17_MissingFieldsDefault ==
    (mpc = "ok" /\ decl.kind = "struct") =>
        \A i \in 1..Len(decl.fields) :
            IF EntriesOf(decl, input, i) = {}
            THEN obj[1][decl.fields[i].fname] = DefaultOf(decl.fields[i].ftype)
            ELSE HoldsOwnValue(decl, input, obj[1], i)

C17_Witness ==
    /\ mpc = "ok"
    /\ decl = StrMapTest
    /\ input = << <<KTest, Str(<<97>>)>>, <<KOption, Bool(TRUE)>> >>
    /\ obj[1]["num"] = Unsigned(0)
    /\ obj[1]["test"] = Str(<<97>>)

\* C18: decoding an enum gives the variant whose declared key equals the
\* decoded key, whichever enum type wrote the key, and a key that no
\* variant declares fails with "Invalid enum discriminator".
C18_EnumDiscriminator ==
    (/\ mpc \in {"ok", "err"}
     /\ decl.kind \in {"enum", "penum"}
     /\ Len(input) >= 1) =>
        LET bound == {i \in 1..Len(decl.variants) : decl.variants[i].fkey = input[1]}
        IN  IF bound = {}
            THEN mpc = "err" /\ merr = "Invalid enum discriminator"
            ELSE /\ merr # "Invalid enum discriminator"
                 /\ decl.kind = "enum" => mpc = "ok"
                 /\ mpc = "ok" =>
                       /\ \E i \in bound : obj[1].variant = decl.variants[i].variant
                       /\ \A enc \in EnumDecls \cup ParamEnumDecls :
                             \A i \in 1..Len(enc.variants) :
                                 (/\ enc.ktype = decl.ktype
                                  /\ input[1] = EnumSerialize(enc, enc.variants[i].variant)) =>
                                     EnumSerialize(decl, obj[1].variant) = enc.variants[i].fkey

C18_Witness ==
    /\ mpc = "ok"
    /\ decl = IntEnumTestReduced
    /\ input = <<EnumSerialize(IntEnumTest, "C")>>
    /\ obj = <<EnumValue("C", <<>>)>>

====
